---- MODULE Spec2Model ----
(***************************************************************************)
(* Hypofolio: the wallet list screen (app/(tabs)/index.tsx), the wallet    *)
(* detail screen (app/wallet/[address].tsx, latest revision), the legacy   *)
(* WalletContext provider, the analysis screen and the token valuation.    *)
(*                                                                         *)
(* Strings stay strings; trim, startsWith, includes, toLowerCase, the       *)
(* address regex and parseFloat are computed character by character, the   *)
(* way the code computes them.                                             *)
(***************************************************************************)
EXTENDS Integers, Sequences, FiniteSets, Bags, TLC

(***************************************************************************)
(* Bounds of the model and constants of the program.                       *)
(***************************************************************************)
\* handler invocations (button presses, screen opens) explored per behaviour
MaxOps == 3
\* fetches of the list screen / detail screen that may be in flight together
MaxInFlight == 2
\* `finalAddress.length !== 42`
AddrLen == 42
\* /^0x[a-fA-F0-9]{40}$/
HexDigits == 40

(***************************************************************************)
(* Characters and strings.                                                 *)
(***************************************************************************)
\* the i-th character of s
CharAt(s, i) == SubSeq(s, i, i)
\* c repeated n times
RECURSIVE Rep(_, _)
Rep(c, n) == IF n = 0 THEN "" ELSE c \o Rep(c, n - 1)

LowerHexChars == {"a", "b", "c", "d", "e", "f"}
UpperHexChars == {"A", "B", "C", "D", "E", "F"}
DigitChars == {"0", "1", "2", "3", "4", "5", "6", "7", "8", "9"}

\* one character of String.prototype.toLowerCase, on the letters the model uses
LowerChar(c) ==
    CASE c = "A" -> "a" [] c = "B" -> "b" [] c = "C" -> "c"
      [] c = "D" -> "d" [] c = "E" -> "e" [] c = "F" -> "f"
      [] c = "G" -> "g" [] c = "X" -> "x" [] c = "H" -> "h"
      [] c = "L" -> "l"
      [] OTHER -> c

\* the characters of s from the i-th on, each in lower case
RECURSIVE LowerFrom(_, _)
LowerFrom(s, i) ==
    IF i > Len(s) THEN "" ELSE LowerChar(CharAt(s, i)) \o LowerFrom(s, i + 1)
toLowerCase(s) == LowerFrom(s, 1)

\* String.prototype.trim on blanks
RECURSIVE TrimLeft(_)
TrimLeft(s) == IF Len(s) > 0 /\ CharAt(s, 1) = " " THEN TrimLeft(Tail(s)) ELSE s
RECURSIVE TrimRight(_)
TrimRight(s) ==
    IF Len(s) > 0 /\ CharAt(s, Len(s)) = " "
    THEN TrimRight(SubSeq(s, 1, Len(s) - 1))
    ELSE s
trim(s) == TrimRight(TrimLeft(s))

\* s.startsWith(p)
startsWith(s, p) == Len(s) >= Len(p) /\ SubSeq(s, 1, Len(p)) = p
\* s.endsWith(p)
endsWith(s, p) == Len(s) >= Len(p) /\ SubSeq(s, Len(s) - Len(p) + 1, Len(s)) = p
\* s.includes(p)
includes(s, p) ==
    \E i \in 1..Len(s) : i + Len(p) - 1 <= Len(s) /\ SubSeq(s, i, i + Len(p) - 1) = p

HlLabel == ".hl"
HexPrefix == "0x"

\* /^0x[a-fA-F0-9]{40}$/.test(s)
AddressRegexTest(s) ==
    /\ Len(s) = 2 + HexDigits
    /\ SubSeq(s, 1, 2) = HexPrefix
    /\ \A i \in 3..Len(s) :
          CharAt(s, i) \in DigitChars \cup LowerHexChars \cup UpperHexChars

\* !finalAddress.startsWith('0x') || finalAddress.length !== 42  (negated: accepted)
ListFormatOk(s) == startsWith(s, HexPrefix) /\ Len(s) = AddrLen


(***************************************************************************)
(* Typed input and addresses the model draws from.                         *)
(***************************************************************************)
AddrA == HexPrefix \o Rep("a", HexDigits)
AddrAUpper == HexPrefix \o Rep("A", HexDigits)
AddrB == HexPrefix \o Rep("b", HexDigits)
\* 42 characters, 0x prefix, not hexadecimal
AddrNonHex == HexPrefix \o Rep("g", HexDigits)
\* 41 characters
AddrShort == HexPrefix \o Rep("a", HexDigits - 1)
\* surrounded by blanks
AddrBPadded == " " \o AddrB \o " "
AliasName == "a" \o HlLabel
\* contains ".hl" but does not end with it
AliasInfix == "a" \o HlLabel \o "x"
Blank == "  "

TypedInputs ==
    {AddrA, AddrAUpper, AddrB, AddrNonHex, AddrShort, AddrBPadded, AliasName,
     AliasInfix, Blank}

\* what the resolver may answer with in data.address
ResolverAddresses == {AddrA, AddrShort}

(***************************************************************************)
(* Holdings as the real-holdings endpoint returns them.                    *)
(***************************************************************************)
TokEth ==
    [symbol |-> "ETH", balance |-> "2", price |-> 2000, usdValue |-> 4000,
     isNative |-> TRUE]
TokUsdc ==
    [symbol |-> "USDC", balance |-> "100", price |-> 1, usdValue |-> 100,
     isNative |-> FALSE]

\* a body is {success, tokens, totalValue, tokenCount}; hasTokens is FALSE for a
\* body without the tokens field (an error body)
BodyEmpty == [hasTokens |-> TRUE, tokens |-> <<>>, totalValue |-> 0, tokenCount |-> 0]
BodyTwo ==
    [hasTokens |-> TRUE, tokens |-> <<TokUsdc, TokEth>>, totalValue |-> 4100,
     tokenCount |-> 2]
HoldingsBodies == {BodyEmpty, BodyTwo}

\* how a fetch of real-holdings can end
FetchFailures == {"neterr", "http", "decode", "nosuccess"}
\* {success: false, error}: no tokens, no totalValue (undefined is falsy, as 0 is)
NoBody == [hasTokens |-> FALSE, tokens |-> <<>>, totalValue |-> 0, tokenCount |-> 0]
\* the body's address field: the address asked for, as sent or in lower case
Echoes(addr) == {addr, toLowerCase(addr)}
FetchOutcomes(addr, echoes) ==
    {[kind |-> k, body |-> NoBody, echo |-> addr, written |-> TRUE] :
        k \in FetchFailures}
    \cup {[kind |-> "ok", body |-> b, echo |-> e, written |-> w] :
            b \in HoldingsBodies, e \in echoes, w \in BOOLEAN}

\* how a call of the alias resolver can end
ResolveOutcomes ==
    {[kind |-> k, address |-> ""] : k \in {"neterr", "nosuccess"}}
    \cup {[kind |-> "ok", address |-> a] : a \in ResolverAddresses}

(***************************************************************************)
(* JavaScript's || on the values the merge uses.                           *)
(***************************************************************************)
\* number || number : 0 is falsy
OrNum(x, y) == IF x = 0 THEN y ELSE x
\* body.tokens || array : every array, the empty one too, is truthy; a missing
\* field is undefined
OrArr(body, y) == IF body.hasTokens THEN body.tokens ELSE y

(***************************************************************************)
(* The AsyncStorage item 'wallets'.                                        *)
(***************************************************************************)
NullItem == [isNull |-> TRUE, text |-> <<>>]
\* JSON.stringify of a wallet array whose numbers are finite
JsonStringify(ws) ==
    [isNull |-> FALSE,
     text |-> [i \in 1..Len(ws) |->
                 [address |-> ws[i].address, tokens |-> ws[i].tokens,
                  totalValue |-> ws[i].totalValue, tokenCount |-> ws[i].tokenCount]]]
JsonParse(item) == item.text


(***************************************************************************)
(* The list screen's pure steps (app/(tabs)/index.tsx, latest revision).   *)
(***************************************************************************)
\* (variant: the early return for other input is missing)
NeedsResolverAlways(input) == TRUE
\* resolveHLName: `input.includes('.hl')` decides whether the resolver is called
NeedsResolver(input) == includes(input, HlLabel)

\* (variant: the comparison without toLowerCase)
WalletExistsExact(ws, finalAddress) ==
    \E i \in 1..Len(ws) : ws[i].address = finalAddress
\* wallets.some(w => w.address.toLowerCase() === finalAddress.toLowerCase())
WalletExists(ws, finalAddress) ==
    \E i \in 1..Len(ws) : toLowerCase(ws[i].address) = toLowerCase(finalAddress)

\* newWallet = {address, tokens: d.tokens || [], totalValue: d.totalValue || 0, ...}
NewWallet(finalAddress, body) ==
    [address |-> finalAddress,
     tokens |-> OrArr(body, <<>>),
     totalValue |-> OrNum(body.totalValue, 0),
     tokenCount |-> OrNum(body.tokenCount, 0)]

\* (variant: the `!walletData.success` check is missing)
ListFetchFailedNoSuccessCheck(out) == out.kind \in {"neterr", "http", "decode"}
\* the holdings fetch of handleAddWallet and handleRefreshWallet throws: fetch
\* rejects, !response.ok, response.json() throws, or !walletData.success
ListFetchFailed(out) == out.kind \in {"neterr", "http", "decode", "nosuccess"}

\* [...wallets, newWallet]
AddMerge(ws, finalAddress, body) == Append(ws, NewWallet(finalAddress, body))

\* wallets.filter(wallet => wallet.address !== address)
RemoveFilter(ws, address) == SelectSeq(ws, LAMBDA w : w.address # address)

\* wallets.map(wallet => wallet.address === address ? {...wallet, ...} : wallet)
RefreshMerge(ws, address, body) ==
    [i \in 1..Len(ws) |->
        IF ws[i].address = address
        THEN [address |-> ws[i].address,
              tokens |-> OrArr(body, ws[i].tokens),
              totalValue |-> OrNum(body.totalValue, ws[i].totalValue),
              tokenCount |-> OrNum(body.tokenCount, ws[i].tokenCount)]
        ELSE ws[i]]

(***************************************************************************)
\* the fallback of calculateWalletTotalValue: totalValue += token.usdValue for
\* the tokens whose usdValue is truthy
RECURSIVE SumTokenUsdValue(_)
SumTokenUsdValue(tokens) ==
    IF tokens = <<>> THEN 0
    ELSE (IF "usdValue" \in DOMAIN tokens[1] THEN tokens[1].usdValue ELSE 0)
           + SumTokenUsdValue(Tail(tokens))

\* wallet.totalValue when it is not undefined, else the sum over the tokens
calculateWalletTotalValue(wallet) ==
    IF "totalValue" \in DOMAIN wallet THEN wallet.totalValue
    ELSE SumTokenUsdValue(wallet.tokens)

\* wallets.reduce((total, wallet) => total + calculateWalletTotalValue(wallet), 0)
RECURSIVE calculateTotalPortfolioValue(_)
calculateTotalPortfolioValue(ws) ==
    IF ws = <<>> THEN 0
    ELSE calculateTotalPortfolioValue(SubSeq(ws, 1, Len(ws) - 1))
           + calculateWalletTotalValue(ws[Len(ws)])

(* The detail screen's pure steps (loadWalletDetails, latest revision).    *)
(***************************************************************************)
\* wallets.find(w => w.address === address) on the parsed item
DetailFind(item, address) ==
    /\ ~item.isNull
    /\ \E i \in 1..Len(JsonParse(item)) : JsonParse(item)[i].address = address

\* loadWalletDetails skips the update: fetch or json() throws (caught), or
\* !(realHoldingsData.success && realHoldingsData.tokens); response.ok is not read,
\* a non-2xx answer carries an error body
DetailFetchFailed(out) ==
    \/ out.kind \in {"neterr", "decode"}
    \/ out.kind \in {"http", "nosuccess"}
    \/ ~out.body.hasTokens

\* wallets.map(w => w.address === address ? {address: d.address, ...} : w)
DetailMerge(ws, address, echo, body) ==
    [i \in 1..Len(ws) |->
        IF ws[i].address = address
        THEN [address |-> echo, tokens |-> body.tokens,
              totalValue |-> body.totalValue, tokenCount |-> body.tokenCount]
        ELSE ws[i]]

(***************************************************************************)
(* State of the list screen, the detail screen and the store.              *)
(***************************************************************************)
VARIABLES
    wallets,    \* useState<Wallet[]> of the list screen
    store,      \* the AsyncStorage item 'wallets'
    loading,    \* useState(false): the Add button is disabled while true
    error,      \* useState(''): the message shown in the add form
    add,        \* the add-wallet attempt in flight, with the closure's wallets
    inflight,   \* refreshes and detail loads in flight, each with what it captured
    remove,     \* the confirmation alert of handleRemoveWallet, with its closure
    ev,         \* the handler step taken last
    ops         \* handler invocations so far

listVars == <<wallets, store, loading, error, add, inflight, remove, ev, ops>>

AddIdle == [phase |-> "idle", input |-> "", addr |-> "", snap |-> <<>>,
            viaResolver |-> FALSE]
NoRemove == [shown |-> FALSE, addr |-> "", snap |-> <<>>]
Ev(k, a) == [kind |-> k, addr |-> a]

\* the requests in flight, and whether one more may start
InFlight == BagToSet(inflight)
MayStart == BagCardinality(inflight) < MaxInFlight
Started(op) == inflight (+) SetToBag({op})
Finished(op) == inflight (-) SetToBag({op})

ErrEmpty == "Please enter a wallet address or HL domain"
ErrFormat == "Invalid Ethereum address format"
ErrExists == "Wallet already exists"
ErrResolve == "Could not resolve"
ErrNetwork == "Network error"

\* The item as earlier sessions may have left it: never written, or written by
\* saveWallets after two successful adds.
StoredBefore ==
    {NullItem,
     JsonStringify(AddMerge(AddMerge(<<>>, AddrAUpper, BodyTwo), AddrB, BodyEmpty))}

\* loadWallets: getItem, and setWallets(JSON.parse(...)) when the item exists
LoadWallets(item) == IF item.isNull THEN <<>> ELSE JsonParse(item)

\* the app has started and the list screen's mount effect has run
ListInit ==
    /\ store \in StoredBefore
    /\ wallets = LoadWallets(store)
    /\ loading = FALSE
    /\ error = ""
    /\ add = AddIdle
    /\ inflight = EmptyBag
    /\ remove = NoRemove
    /\ ev = Ev("init", "")
    /\ ops = 0

\* saveWallets: setItem, then setWallets; a rejected setItem is logged and
\* leaves both as they were
SaveWallets(updated, written) ==
    IF written
    THEN store' = JsonStringify(updated) /\ wallets' = updated
    ELSE UNCHANGED <<store, wallets>>

\* (variant: the early returns skip the finally block, loading stays as it was)
AddValidateNoFinally(input, finalAddress, snap, viaResolver) ==
    IF ~ListFormatOk(finalAddress)
    THEN /\ error' = ErrFormat
         /\ UNCHANGED loading
         /\ add' = AddIdle
         /\ ev' = Ev("addInvalid", finalAddress)
    ELSE IF WalletExists(snap, finalAddress)
    THEN /\ error' = ErrExists
         /\ UNCHANGED loading
         /\ add' = AddIdle
         /\ ev' = Ev("addExists", finalAddress)
    ELSE /\ error' = ""
         /\ loading' = TRUE
         /\ add' = [phase |-> "fetching", input |-> input, addr |-> finalAddress,
                    snap |-> snap, viaResolver |-> viaResolver]
         /\ ev' = Ev("addFetch", finalAddress)

\* handleAddWallet from the format check to the start of the holdings fetch
AddValidate(input, finalAddress, snap, viaResolver) ==
    IF ~ListFormatOk(finalAddress)
    THEN /\ error' = ErrFormat
         /\ loading' = FALSE
         /\ add' = AddIdle
         /\ ev' = Ev("addInvalid", finalAddress)
    ELSE IF WalletExists(snap, finalAddress)
    THEN /\ error' = ErrExists
         /\ loading' = FALSE
         /\ add' = AddIdle
         /\ ev' = Ev("addExists", finalAddress)
    ELSE /\ error' = ""
         /\ loading' = TRUE
         /\ add' = [phase |-> "fetching", input |-> input, addr |-> finalAddress,
                    snap |-> snap, viaResolver |-> viaResolver]
         /\ ev' = Ev("addFetch", finalAddress)

\* the Add button: handleAddWallet up to its first network request
AddPress(input) ==
    /\ ~loading
    /\ add.phase = "idle"
    /\ ops < MaxOps
    /\ ops' = ops + 1
    /\ UNCHANGED <<wallets, store, inflight, remove>>
    /\ IF trim(input) = ""
       THEN /\ error' = ErrEmpty
            /\ ev' = Ev("addEmpty", "")
            /\ UNCHANGED <<loading, add>>
       ELSE IF NeedsResolver(trim(input))
       THEN /\ error' = ""
            /\ loading' = TRUE
            /\ add' = [phase |-> "resolving", input |-> input, addr |-> "",
                       snap |-> wallets, viaResolver |-> TRUE]
            /\ ev' = Ev("addResolve", input)
       ELSE AddValidate(input, trim(input), wallets, FALSE)

\* the resolver answers
AddResolved(out) ==
    /\ add.phase = "resolving"
    /\ UNCHANGED <<wallets, store, inflight, remove, ops>>
    /\ IF out.kind = "ok"
       THEN AddValidate(add.input, out.address, add.snap, TRUE)
       ELSE /\ error' = ErrResolve
            /\ loading' = FALSE
            /\ add' = AddIdle
            /\ ev' = Ev("addResolveFail", add.input)

\* the holdings fetch of handleAddWallet answers
AddFetched(out, written) ==
    /\ add.phase = "fetching"
    /\ UNCHANGED <<inflight, remove, ops>>
    /\ loading' = FALSE
    /\ add' = AddIdle
    /\ ev' = Ev(IF out.kind # "ok" THEN "addFetchFail"
                ELSE IF written THEN "addOk" ELSE "addSaveFail", add.addr)
    /\ IF ~ListFetchFailed(out)
       THEN /\ SaveWallets(AddMerge(add.snap, add.addr, out.body), written)
            /\ error' = ""
       ELSE /\ UNCHANGED <<wallets, store>>
            /\ error' = ErrNetwork

\* the trash icon: handleRemoveWallet shows the alert
RemovePress(i) ==
    /\ i \in 1..Len(wallets)
    /\ ~remove.shown
    /\ ops < MaxOps
    /\ ops' = ops + 1
    /\ remove' = [shown |-> TRUE, addr |-> wallets[i].address, snap |-> wallets]
    /\ ev' = Ev("removeAsk", wallets[i].address)
    /\ UNCHANGED <<wallets, store, loading, error, add, inflight>>

\* the alert's Cancel
RemoveCancel ==
    /\ remove.shown
    /\ remove' = NoRemove
    /\ ev' = Ev("removeCancel", remove.addr)
    /\ UNCHANGED <<wallets, store, loading, error, add, inflight, ops>>

\* the alert's Remove
RemoveConfirm(written) ==
    /\ remove.shown
    /\ remove' = NoRemove
    /\ SaveWallets(RemoveFilter(remove.snap, remove.addr), written)
    /\ ev' = Ev(IF written THEN "removeOk" ELSE "removeSaveFail", remove.addr)
    /\ UNCHANGED <<loading, error, add, inflight, ops>>

\* the refresh icon of a wallet card: handleRefreshWallet up to its fetch
RefreshPress(i) ==
    /\ i \in 1..Len(wallets)
    /\ MayStart
    /\ ops < MaxOps
    /\ ops' = ops + 1
    /\ inflight' = Started([kind |-> "refresh", addr |-> wallets[i].address,
                             snap |-> wallets, item |-> NullItem, found |-> FALSE])
    /\ ev' = Ev("refreshStart", wallets[i].address)
    /\ UNCHANGED <<wallets, store, loading, error, add, remove>>

\* the fetch of handleRefreshWallet answers
RefreshDone(op, out, written) ==
    /\ op.kind = "refresh"
    /\ inflight' = Finished(op)
    /\ ev' = Ev(IF out.kind # "ok" THEN "refreshFail"
                ELSE IF written THEN "refreshOk" ELSE "refreshSaveFail", op.addr)
    /\ IF ~ListFetchFailed(out)
       THEN SaveWallets(RefreshMerge(op.snap, op.addr, out.body), written)
       ELSE UNCHANGED <<wallets, store>>
    /\ UNCHANGED <<loading, error, add, remove, ops>>

\* a wallet card is pressed: the detail screen mounts and loadWalletDetails
\* reads the item and starts its fetch
DetailOpen(i) ==
    /\ i \in 1..Len(wallets)
    /\ MayStart
    /\ ops < MaxOps
    /\ ops' = ops + 1
    /\ inflight' = Started([kind |-> "detail", addr |-> wallets[i].address,
                             snap |-> <<>>, item |-> store,
                             found |-> DetailFind(store, wallets[i].address)])
    /\ ev' = Ev("detailStart", wallets[i].address)
    /\ UNCHANGED <<wallets, store, loading, error, add, remove>>

\* the fetch of loadWalletDetails answers
DetailDone(op, out, written) ==
    /\ op.kind = "detail"
    /\ inflight' = Finished(op)
    /\ ev' = Ev(IF out.kind # "ok" THEN "detailFail"
                ELSE IF ~op.item.isNull /\ written THEN "detailOk" ELSE "detailNoWrite",
                op.addr)
    /\ IF ~DetailFetchFailed(out) /\ ~op.item.isNull /\ written
       THEN store' = JsonStringify(DetailMerge(JsonParse(op.item), op.addr,
                                               out.echo, out.body))
       ELSE UNCHANGED store
    /\ UNCHANGED <<wallets, loading, error, add, remove, ops>>

\* the app is started again: the list screen mounts and loadWallets runs
Mount ==
    /\ ops < MaxOps
    /\ ops' = ops + 1
    /\ wallets' = LoadWallets(store)
    /\ loading' = FALSE
    /\ error' = ""
    /\ add' = AddIdle
    /\ inflight' = EmptyBag
    /\ remove' = NoRemove
    /\ ev' = Ev("mount", "")
    /\ UNCHANGED store

(***************************************************************************)
(* The legacy provider (src/context/WalletContext.js) with the screens     *)
(* that call it (src/screens/HomeScreen.js, WalletDetailsScreen).          *)
(* Every function of the provider closes over the `wallets` of the render  *)
(* that created it, so a call carries that array to its continuations.     *)
(***************************************************************************)
VARIABLES
    ctxWallets,   \* useState([]) of WalletProvider
    ctxCalls,     \* addWallet / updateBalance calls in flight, with their closure
    homeLoading,  \* HomeScreen's useState(false): its Add button is disabled while true
    homeError,    \* HomeScreen's useState(''): the message it shows
    ctxEv,        \* the provider step taken last
    ctxOps        \* calls made so far

ctxVars == <<ctxWallets, ctxCalls, homeLoading, homeError, ctxEv, ctxOps>>

\* what the legacy endpoints answer with
LegacyBalances == {"1", "5"}
LegacyToken == [symbol |-> "USDC", balance |-> "100", decimals |-> 6]
LegacyTokenLists == {<<>>, <<LegacyToken>>}
LegacyOutcomes ==
    {[kind |-> k, balance |-> "", tokens |-> <<>>] : k \in {"neterr", "http", "decode"}}
    \cup {[kind |-> "ok", balance |-> b, tokens |-> t] :
            b \in LegacyBalances, t \in LegacyTokenLists}

\* wallets.some(w => w.address.toLowerCase() === address.toLowerCase())
CtxWalletExists(ws, address) ==
    \E i \in 1..Len(ws) : toLowerCase(ws[i].address) = toLowerCase(address)

\* [...wallets, { address, balance: '0', tokens: [] }]
CtxPlaceholder(ws, address) ==
    Append(ws, [address |-> address, balance |-> "0", tokens |-> <<>>])

\* wallets.map(w => lower(w.address) === lower(address) ? {...w, balance} : w)
CtxSetBalance(ws, address, balance) ==
    [i \in 1..Len(ws) |->
        IF toLowerCase(ws[i].address) = toLowerCase(address)
        THEN [ws[i] EXCEPT !.balance = balance]
        ELSE ws[i]]

\* wallets.map(w => lower(w.address) === lower(address) ? {...w, tokens} : w)
CtxSetTokens(ws, address, tokens) ==
    [i \in 1..Len(ws) |->
        IF toLowerCase(ws[i].address) = toLowerCase(address)
        THEN [ws[i] EXCEPT !.tokens = tokens]
        ELSE ws[i]]

\* wallets.filter(wallet => wallet.address !== address)
CtxRemoveFilter(ws, address) == SelectSeq(ws, LAMBDA w : w.address # address)

\* the fetch of updateBalance / updateTokens throws: fetch rejects, !response.ok,
\* or response.json() throws
LegacyFetchFailed(out) == out.kind \in {"neterr", "http", "decode"}

CtxInit ==
    /\ ctxWallets = <<>>
    /\ ctxCalls = EmptyBag
    /\ homeLoading = FALSE
    /\ homeError = ""
    /\ ctxEv = Ev("init", "")
    /\ ctxOps = 0

\* HomeScreen.handleAddWallet and addWallet up to the fetch of updateBalance
HomeAddPress(input) ==
    /\ ~homeLoading
    /\ ctxOps < MaxOps
    /\ ctxOps' = ctxOps + 1
    /\ IF trim(input) = ""
       THEN /\ homeError' = "Please enter a wallet address"
            /\ ctxEv' = Ev("addEmpty", "")
            /\ UNCHANGED <<ctxWallets, ctxCalls, homeLoading>>
       ELSE IF ~AddressRegexTest(input)
       THEN /\ homeError' = ErrFormat
            /\ ctxEv' = Ev("addInvalid", input)
            /\ UNCHANGED <<ctxWallets, ctxCalls, homeLoading>>
       ELSE IF CtxWalletExists(ctxWallets, input)
       THEN /\ homeError' = ErrExists
            /\ ctxEv' = Ev("addExists", input)
            /\ UNCHANGED <<ctxWallets, ctxCalls, homeLoading>>
       ELSE /\ homeError' = ""
            /\ homeLoading' = TRUE
            /\ ctxWallets' = CtxPlaceholder(ctxWallets, input)
            /\ ctxCalls' = ctxCalls (+) SetToBag({[fn |-> "add", addr |-> input,
                                                   snap |-> ctxWallets,
                                                   phase |-> "balance"]})
            /\ ctxEv' = Ev("addStart", input)

\* WalletDetailsScreen (mount effect, Refresh Balance): updateBalance(address)
CtxUpdatePress(i) ==
    /\ i \in 1..Len(ctxWallets)
    /\ ctxOps < MaxOps
    /\ ctxOps' = ctxOps + 1
    /\ ctxCalls' = ctxCalls (+) SetToBag({[fn |-> "update",
                                           addr |-> ctxWallets[i].address,
                                           snap |-> ctxWallets, phase |-> "balance"]})
    /\ ctxEv' = Ev("updateStart", ctxWallets[i].address)
    /\ UNCHANGED <<ctxWallets, homeLoading, homeError>>

\* removeWallet(address)
CtxRemoveWallet(i) ==
    /\ i \in 1..Len(ctxWallets)
    /\ ctxOps < MaxOps
    /\ ctxOps' = ctxOps + 1
    /\ ctxWallets' = CtxRemoveFilter(ctxWallets, ctxWallets[i].address)
    /\ ctxEv' = Ev("remove", ctxWallets[i].address)
    /\ UNCHANGED <<ctxCalls, homeLoading, homeError>>

\* a call returns to its caller: addWallet's caller clears its loading flag
CtxReturn(call) ==
    /\ homeLoading' = IF call.fn = "add" THEN FALSE ELSE homeLoading
    /\ UNCHANGED homeError

\* the balance fetch of updateBalance answers
CtxBalanceDone(call, out) ==
    /\ call.phase = "balance"
    /\ UNCHANGED ctxOps
    /\ IF LegacyFetchFailed(out)
       THEN /\ ctxCalls' = ctxCalls (-) SetToBag({call})
            /\ CtxReturn(call)
            /\ ctxEv' = Ev(call.fn \o "BalanceFail", call.addr)
            /\ UNCHANGED ctxWallets
       ELSE /\ ctxWallets' = CtxSetBalance(call.snap, call.addr, out.balance)
            /\ ctxCalls' = (ctxCalls (-) SetToBag({call}))
                             (+) SetToBag({[call EXCEPT !.phase = "tokens"]})
            /\ ctxEv' = Ev(call.fn \o "Balance", call.addr)
            /\ UNCHANGED <<homeLoading, homeError>>

\* the tokens fetch of updateTokens answers
CtxTokensDone(call, out) ==
    /\ call.phase = "tokens"
    /\ UNCHANGED ctxOps
    /\ ctxCalls' = ctxCalls (-) SetToBag({call})
    /\ CtxReturn(call)
    /\ IF LegacyFetchFailed(out)
       THEN /\ ctxEv' = Ev(call.fn \o "TokensFail", call.addr)
            /\ UNCHANGED ctxWallets
       ELSE /\ ctxWallets' = CtxSetTokens(call.snap, call.addr, out.tokens)
            /\ ctxEv' = Ev(call.fn \o "Done", call.addr)


(***************************************************************************)
(* JavaScript values where a number may be missing or NaN: a finite        *)
(* integer, NaN, undefined or null.                                        *)
(***************************************************************************)
Num(n) == [k |-> "num", v |-> n]
NaN == [k |-> "nan", v |-> 0]
Undefined == [k |-> "undefined", v |-> 0]
Null == [k |-> "null", v |-> 0]
\* ToNumber: undefined is NaN, null is 0
ToNumber(x) == IF x.k = "undefined" THEN NaN ELSE IF x.k = "null" THEN Num(0) ELSE x
JsAdd(x, y) ==
    IF ToNumber(x).k = "nan" \/ ToNumber(y).k = "nan" THEN NaN
    ELSE Num(ToNumber(x).v + ToNumber(y).v)
JsSub(x, y) ==
    IF ToNumber(x).k = "nan" \/ ToNumber(y).k = "nan" THEN NaN
    ELSE Num(ToNumber(x).v - ToNumber(y).v)
JsMul(x, y) ==
    IF ToNumber(x).k = "nan" \/ ToNumber(y).k = "nan" THEN NaN
    ELSE Num(ToNumber(x).v * ToNumber(y).v)
\* ToBoolean: 0, NaN, undefined and null are falsy
Truthy(x) == x.k = "num" /\ x.v # 0
\* x || y
JsOr(x, y) == IF Truthy(x) THEN x ELSE y

DigitValue(c) ==
    CASE c = "0" -> 0 [] c = "1" -> 1 [] c = "2" -> 2 [] c = "3" -> 3 [] c = "4" -> 4
      [] c = "5" -> 5 [] c = "6" -> 6 [] c = "7" -> 7 [] c = "8" -> 8 [] c = "9" -> 9

\* the longest prefix of decimal digits, as a number so far `acc`
RECURSIVE DigitPrefix(_, _, _)
DigitPrefix(s, acc, seen) ==
    IF Len(s) > 0 /\ CharAt(s, 1) \in DigitChars
    THEN DigitPrefix(Tail(s), 10 * acc + DigitValue(CharAt(s, 1)), TRUE)
    ELSE IF seen THEN Num(acc) ELSE NaN

\* parseFloat on strings of digits, letters and blanks: leading blanks are
\* skipped, the longest numeric prefix is the value, no such prefix gives NaN
parseFloat(s) == DigitPrefix(TrimLeft(s), 0, FALSE)

(***************************************************************************)
(* The analysis screen (app/(tabs)/analysis.tsx).                          *)
(***************************************************************************)
VARIABLES
    anPhase,      \* "idle", "fetching" (inside the for loop) or "done"
    anWallets,    \* JSON.parse(storedWallets) of the run
    anIdx,        \* the wallet whose fetch is awaited
    allHoldings,  \* the holdings pushed so far
    anFailed,     \* wallets of the run whose fetch was skipped
    analysis,     \* useState<AnalysisData | null>(null)
    anLoading,    \* useState(true)
    anOps         \* runs of loadAnalysis so far

anVars == <<anPhase, anWallets, anIdx, allHoldings, anFailed, analysis, anLoading, anOps>>

\* a percentage n/d; d = 0 with n > 0 is Infinity (a division by zero)
Frac(n, d) == [n |-> n, d |-> d]
FracGt(f, k) == IF f.d = 0 THEN TRUE ELSE f.n > k * f.d
FracLt(f, k) == IF f.d = 0 THEN FALSE ELSE f.n < k * f.d

NoAnalysis == [isNull |-> TRUE]
RecAddWallets == "Add some wallets to start building your portfolio."
RecConcentrated == "heavily concentrated"
RecLimited == "limited diversification"
RecExcellent == "Excellent diversification"
RecRebalance == "Consider rebalancing"

\* the result returned for holdings.length === 0
EmptyAnalysis ==
    [isNull |-> FALSE, totalValue |-> 0, topPerformer |-> "N/A", riskLevel |-> "Low",
     recommendation |-> RecAddWallets, diversification |-> 0, tokenCount |-> 0,
     largestHolding |-> [symbol |-> "N/A", percentage |-> Frac(0, 1)]]

\* totalPortfolioValue += wallet.totalValue
RECURSIVE SumTotalValue(_)
SumTotalValue(holdings) ==
    IF holdings = <<>> THEN 0 ELSE holdings[1].totalValue + SumTotalValue(Tail(holdings))

\* holdings.forEach(wallet => wallet.tokens.forEach(...)): the tokens in visiting order
RECURSIVE FlattenTokens(_)
FlattenTokens(holdings) ==
    IF holdings = <<>> THEN <<>> ELSE holdings[1].tokens \o FlattenTokens(Tail(holdings))

\* (variant: totalValue = token.usdValue instead of +=)
RECURSIVE AggregateOverwriting(_, _)
AggregateOverwriting(tokens, buckets) ==
    IF tokens = <<>> THEN buckets
    ELSE LET t == tokens[1]
             known == \E i \in 1..Len(buckets) : buckets[i].symbol = t.symbol
             start == IF known THEN buckets
                      ELSE Append(buckets, [symbol |-> t.symbol, totalValue |-> 0,
                                            balance |-> Num(0)])
             next == [i \in 1..Len(start) |->
                        IF start[i].symbol = t.symbol
                        THEN [symbol |-> t.symbol,
                              totalValue |-> t.usdValue,
                              balance |-> JsAdd(start[i].balance, parseFloat(t.balance))]
                        ELSE start[i]]
         IN AggregateOverwriting(Tail(tokens), next)

\* allTokens[symbol] created on first sight (keys keep insertion order), then
\* totalValue += token.usdValue and balance += parseFloat(token.balance)
RECURSIVE Aggregate(_, _)
Aggregate(tokens, buckets) ==
    IF tokens = <<>> THEN buckets
    ELSE LET t == tokens[1]
             known == \E i \in 1..Len(buckets) : buckets[i].symbol = t.symbol
             start == IF known THEN buckets
                      ELSE Append(buckets, [symbol |-> t.symbol, totalValue |-> 0,
                                            balance |-> Num(0)])
             next == [i \in 1..Len(start) |->
                        IF start[i].symbol = t.symbol
                        THEN [symbol |-> t.symbol,
                              totalValue |-> start[i].totalValue + t.usdValue,
                              balance |-> JsAdd(start[i].balance, parseFloat(t.balance))]
                        ELSE start[i]]
         IN Aggregate(Tail(tokens), next)

\* Object.entries(allTokens).forEach: a bucket replaces the best so far only if
\* data.totalValue > maxValue
RECURSIVE Largest(_, _, _)
Largest(buckets, best, total) ==
    IF buckets = <<>> THEN best
    ELSE IF buckets[1].totalValue > best.maxValue
         THEN Largest(Tail(buckets),
                      [maxValue |-> buckets[1].totalValue, symbol |-> buckets[1].symbol,
                       percentage |-> Frac(100 * buckets[1].totalValue, total)],
                      total)
         ELSE Largest(Tail(buckets), best, total)

\* (variant: Math.min(100, ...) is missing)
DiversificationNoUpperClamp(p) ==
    IF p.d = 0 THEN Frac(0, 1)
    ELSE IF 120 * p.d - p.n <= 0 THEN Frac(0, 1)
    ELSE Frac(120 * p.d - p.n, p.d)

\* Math.min(100, Math.max(0, 100 - (percentage - 20))), as a fraction
Diversification(p) ==
    IF p.d = 0 THEN Frac(0, 1)
    ELSE IF 120 * p.d - p.n <= 0 THEN Frac(0, 1)
    ELSE IF 120 * p.d - p.n >= 100 * p.d THEN Frac(100, 1)
    ELSE Frac(120 * p.d - p.n, p.d)

\* Math.round of a fraction in [0, 100]: floor(x + 1/2)
MathRound(f) == (2 * f.n + f.d) \div (2 * f.d)

\* (variant: tokenCount >= 5 instead of tokenCount > 5)
RiskLevelCountAtLeastFive(p, tokenCount) ==
    IF FracGt(p, 70) THEN "High"
    ELSE IF FracLt(p, 30) /\ tokenCount >= 5 THEN "Low"
    ELSE "Medium"

\* riskLevel: 'Medium' unless percentage > 70 ('High'), else percentage < 30 and
\* tokenCount > 5 ('Low')
RiskLevel(p, tokenCount) ==
    IF FracGt(p, 70) THEN "High"
    ELSE IF FracLt(p, 30) /\ tokenCount > 5 THEN "Low"
    ELSE "Medium"

\* (variant: the tokenCount branch is tried before the concentration branch)
RecommendationCountFirst(p, tokenCount, diversification) ==
    IF tokenCount < 3 THEN RecLimited
    ELSE IF FracGt(p, 60) THEN RecConcentrated
    ELSE IF FracGt(diversification, 80) THEN RecExcellent
    ELSE RecRebalance

\* the if / else-if chain that picks the recommendation
Recommendation(p, tokenCount, diversification) ==
    IF FracGt(p, 60) THEN RecConcentrated
    ELSE IF tokenCount < 3 THEN RecLimited
    ELSE IF FracGt(diversification, 80) THEN RecExcellent
    ELSE RecRebalance

\* holdings.length === 0
HoldingsEmpty(holdings) == Len(holdings) = 0

calculatePortfolioAnalysis(holdings) ==
    IF HoldingsEmpty(holdings) THEN EmptyAnalysis
    ELSE LET total == SumTotalValue(holdings)
             allTokens == Aggregate(FlattenTokens(holdings), <<>>)
             top == Largest(allTokens,
                            [maxValue |-> 0, symbol |-> "N/A", percentage |-> Frac(0, 1)],
                            total)
             tokenCount == Len(allTokens)
             diversification == Diversification(top.percentage)
         IN [isNull |-> FALSE,
             totalValue |-> total,
             topPerformer |-> top.symbol,
             riskLevel |-> RiskLevel(top.percentage, tokenCount),
             recommendation |-> Recommendation(top.percentage, tokenCount, diversification),
             diversification |-> MathRound(diversification),
             tokenCount |-> tokenCount,
             largestHolding |-> [symbol |-> top.symbol, percentage |-> top.percentage]]


\* what the real-holdings endpoint may answer with for a stored wallet
TokDust ==
    [symbol |-> "DUST", balance |-> "abc", price |-> 0, usdValue |-> 0,
     isNative |-> FALSE]
TokEthLower ==
    [symbol |-> "eth", balance |-> "1", price |-> 2000, usdValue |-> 2000,
     isNative |-> FALSE]
BodyEthOnly ==
    [hasTokens |-> TRUE, tokens |-> <<TokEth>>, totalValue |-> 4000, tokenCount |-> 1]
BodyWorthless ==
    [hasTokens |-> TRUE, tokens |-> <<TokDust>>, totalValue |-> 0, tokenCount |-> 1]
\* tokens with a value under a total of 0 (or without totalValue)
BodyNoTotal ==
    [hasTokens |-> TRUE, tokens |-> <<TokUsdc>>, totalValue |-> 0, tokenCount |-> 1]
BodyMixedCase ==
    [hasTokens |-> TRUE, tokens |-> <<TokEthLower, TokEth>>, totalValue |-> 6000,
     tokenCount |-> 2]
\* a wallet holding one token of each symbol, each worth usdValue
EqualBody(symbols, usdValue) ==
    [hasTokens |-> TRUE,
     tokens |-> [i \in 1..Len(symbols) |->
                   [symbol |-> symbols[i], balance |-> "1", price |-> usdValue,
                    usdValue |-> usdValue, isNative |-> FALSE]],
     totalValue |-> Len(symbols) * usdValue,
     tokenCount |-> Len(symbols)]
AnalysisBodies ==
    {BodyEmpty, BodyTwo, BodyEthOnly, BodyWorthless, BodyNoTotal, BodyMixedCase,
     EqualBody(<<"ETH", "USDC", "BTC", "SOL", "HYPE">>, 200),
     EqualBody(<<"ETH", "USDC", "BTC", "SOL", "HYPE", "ARB">>, 100)}
AnalysisOutcomes ==
    {[kind |-> k, body |-> NoBody] : k \in FetchFailures}
    \cup {[kind |-> "ok", body |-> b] : b \in AnalysisBodies}

\* the array under 'wallets' when the analysis screen reads it
AnalysisStoredBefore ==
    {NullItem,
     JsonStringify(<<>>),
     JsonStringify(AddMerge(<<>>, AddrA, BodyTwo)),
     JsonStringify(AddMerge(AddMerge(<<>>, AddrAUpper, BodyTwo), AddrB, BodyEmpty))}

\* (variant: no response is skipped)
AnalysisFetchSkippedNever(out) == FALSE

\* the wallet is skipped: fetch or json() throws (caught), or
\* !(data.success && data.tokens); response.ok is not read
AnalysisFetchSkipped(out) ==
    \/ out.kind \in {"neterr", "decode"}
    \/ out.kind \in {"http", "nosuccess"}
    \/ ~out.body.hasTokens

\* allHoldings.push({address, tokens: data.tokens, totalValue: data.totalValue || 0})
PushHolding(holdings, address, body) ==
    Append(holdings, [address |-> address, tokens |-> body.tokens,
                      totalValue |-> OrNum(body.totalValue, 0)])

AnalysisInit ==
    /\ anPhase = "idle"
    /\ anWallets = <<>>
    /\ anIdx = 0
    /\ allHoldings = <<>>
    /\ anFailed = 0
    /\ analysis = NoAnalysis
    /\ anLoading = TRUE
    /\ anOps = 0

\* setAnalysis(calculatePortfolioAnalysis(allHoldings)); setLoading(false)
FinishAnalysis(holdings) ==
    /\ analysis' = calculatePortfolioAnalysis(holdings)
    /\ anLoading' = FALSE
    /\ anPhase' = "done"

\* loadAnalysis (the mount effect, or the Refresh button of the result view) up to
\* its first fetch
LoadAnalysis ==
    /\ \/ anPhase = "idle"
       \/ anPhase = "done" /\ ~anLoading /\ ~analysis.isNull
    /\ anOps < MaxOps
    /\ anOps' = anOps + 1
    /\ allHoldings' = <<>>
    /\ anFailed' = 0
    /\ IF store.isNull
       THEN /\ anLoading' = FALSE
            /\ anPhase' = "done"
            /\ anWallets' = <<>>
            /\ anIdx' = 0
            /\ UNCHANGED analysis
       ELSE IF Len(JsonParse(store)) = 0
       THEN /\ anWallets' = <<>>
            /\ anIdx' = 0
            /\ FinishAnalysis(<<>>)
       ELSE /\ anWallets' = JsonParse(store)
            /\ anIdx' = 1
            /\ anPhase' = "fetching"
            /\ anLoading' = TRUE
            /\ UNCHANGED analysis

\* the fetch for wallets[anIdx] answers; after the last one the analysis is set
AnalysisFetched(out) ==
    /\ anPhase = "fetching"
    /\ UNCHANGED <<anWallets, anOps>>
    /\ allHoldings' = IF AnalysisFetchSkipped(out) THEN allHoldings
                      ELSE PushHolding(allHoldings, anWallets[anIdx].address, out.body)
    /\ anFailed' = IF out.kind = "ok" THEN anFailed ELSE anFailed + 1
    /\ IF anIdx = Len(anWallets)
       THEN /\ anIdx' = 0
            /\ FinishAnalysis(allHoldings')
       ELSE /\ anIdx' = anIdx + 1
            /\ UNCHANGED <<analysis, anLoading, anPhase>>


(***************************************************************************)
(* What the wallet detail screen displays (unnamed/part_004): the wallet,  *)
(* the valued token rows and the total, and the effect on [wallet] that    *)
(* runs calculateTokenValues.                                              *)
(***************************************************************************)
VARIABLES
    dWallet,          \* useState<Wallet | null>(null)
    tokensWithValue,  \* useState<TokenWithValue[]>([])
    dTotalValue,      \* useState(0)
    dPending,         \* the effect on [wallet] is scheduled
    dEv,              \* the last step
    dOps

valVars == <<dWallet, tokensWithValue, dTotalValue, dPending, dEv, dOps>>

MaxTokens == 2

\* a token as the store or the endpoint delivers it (interface Token)
Token(symbol, balance, price, value, usdValue) ==
    [symbol |-> symbol, balance |-> balance, price |-> price, value |-> value,
     usdValue |-> usdValue]
DisplayTokens ==
    {Token("ETH", "2", Num(2000), Undefined, Undefined),
     Token("BAD", "abc", Num(10), Undefined, Undefined),
     Token("NOP", "5", Null, Undefined, Undefined),
     Token("OLD", "1", Undefined, Num(7), Undefined),
     Token("USDC", " 100", Num(1), Undefined, Undefined),
     Token("ETH", "2", Num(2000), Undefined, Num(4000)),
     Token("USDC", "100", Num(1), Undefined, Num(100)),
     Token("DUST", "abc", Num(0), Undefined, Num(0))}
RECURSIVE SeqsUpTo(_, _)
SeqsUpTo(S, n) ==
    IF n = 0 THEN {<<>>}
    ELSE LET shorter == SeqsUpTo(S, n - 1)
         IN shorter \cup {Append(q, x) : q \in shorter, x \in S}
RECURSIVE SumUsdValue(_)
SumUsdValue(tokens) ==
    IF tokens = <<>> THEN Num(0)
    ELSE JsAdd(tokens[1].usdValue, SumUsdValue(Tail(tokens)))
\* a wallet of the store or a response body: totalValue is the sum when every
\* token carries usdValue and is absent otherwise
DisplayWallets ==
    {[isNull |-> FALSE, tokens |-> q,
      totalValue |-> IF SumUsdValue(q).k = "num" THEN SumUsdValue(q) ELSE Undefined] :
        q \in SeqsUpTo(DisplayTokens, MaxTokens)}
NoWallet == [isNull |-> TRUE, tokens |-> <<>>, totalValue |-> Undefined]

\* b.usdValue - a.usdValue > 0: b sorts before a
SortsBefore(b, a) ==
    JsSub(b.usdValue, a.usdValue).k = "num" /\ JsSub(b.usdValue, a.usdValue).v > 0
\* stable insertion: t goes in front of the first row it sorts before
InsertRow(sorted, t) ==
    LET ahead == {i \in 1..Len(sorted) : SortsBefore(t, sorted[i])}
        at == IF ahead = {} THEN Len(sorted) + 1
              ELSE CHOOSE i \in ahead : \A j \in ahead : i <= j
    IN SubSeq(sorted, 1, at - 1) \o <<t>> \o SubSeq(sorted, at, Len(sorted))
RECURSIVE StableSortDesc(_, _)
StableSortDesc(rows, sorted) ==
    IF rows = <<>> THEN sorted
    ELSE StableSortDesc(Tail(rows), InsertRow(sorted, rows[1]))
\* the comparator is a consistent one unless a NaN difference ties rows whose
\* values differ
ConsistentComparator(rows) ==
    \/ \A i \in 1..Len(rows) : ToNumber(rows[i].usdValue).k = "num"
    \/ \A i, j \in 1..Len(rows) :
          (ToNumber(rows[i].usdValue).k = "num" /\ ToNumber(rows[j].usdValue).k = "num")
              => ToNumber(rows[i].usdValue).v = ToNumber(rows[j].usdValue).v
AnyOrder(rows) ==
    {[i \in 1..Len(rows) |-> rows[f[i]]] :
        f \in {g \in [1..Len(rows) -> 1..Len(rows)] :
                  \A i, j \in 1..Len(rows) : g[i] = g[j] => i = j}}
\* [...rows].sort((a, b) => b.usdValue - a.usdValue): the orders sort may produce;
\* with an inconsistent comparator the order is implementation-defined
SortByUsdValue(rows) ==
    IF ConsistentComparator(rows) THEN {StableSortDesc(rows, <<>>)}
    ELSE AnyOrder(rows)

\* the row built from a stored token: price || 0, usdValue || 0
StoredRow(token) ==
    [symbol |-> token.symbol, balance |-> token.balance,
     price |-> JsOr(token.price, Num(0)), usdValue |-> JsOr(token.usdValue, Num(0))]
\* the row displayed for a token of the response (the token itself)
FetchedRow(token) ==
    [symbol |-> token.symbol, balance |-> token.balance, price |-> token.price,
     usdValue |-> token.usdValue]
\* balance = parseFloat(token.balance); price = token.price || 0;
\* usdValue = token.value || (balance * price)
ValuedRow(token) ==
    LET balance == parseFloat(token.balance)
        price == JsOr(token.price, Num(0))
    IN [symbol |-> token.symbol, balance |-> token.balance, price |-> price,
        usdValue |-> JsOr(token.value, JsMul(balance, price))]
RECURSIVE PortfolioValue(_, _)
PortfolioValue(rows, acc) ==
    IF rows = <<>> THEN acc ELSE PortfolioValue(Tail(rows), JsAdd(acc, rows[1].usdValue))
MapRows(Row(_), tokens) == [i \in 1..Len(tokens) |-> Row(tokens[i])]

\* the early return: rows are already displayed and the first has a usdValue
AlreadyValued(rows) == Len(rows) > 0 /\ rows[1].usdValue.k # "undefined"

ValueInit ==
    /\ dWallet = NoWallet
    /\ tokensWithValue = <<>>
    /\ dTotalValue = Num(0)
    /\ dPending = FALSE
    /\ dEv = "init"
    /\ dOps = 0

\* loadWalletDetails found the wallet in the store
DetailShowStored(w) ==
    /\ ~dPending
    /\ dOps < MaxOps
    /\ dOps' = dOps + 1
    /\ dWallet' = w
    /\ dTotalValue' = JsOr(w.totalValue, Num(0))
    /\ tokensWithValue' \in SortByUsdValue(MapRows(StoredRow, w.tokens))
    /\ dPending' = TRUE
    /\ dEv' = "stored"

\* loadWalletDetails got success && tokens from the endpoint
DetailShowFetched(w) ==
    /\ ~dPending
    /\ dOps < MaxOps
    /\ dOps' = dOps + 1
    /\ dWallet' = w
    /\ dTotalValue' = w.totalValue
    /\ tokensWithValue' \in SortByUsdValue(MapRows(FetchedRow, w.tokens))
    /\ dPending' = TRUE
    /\ dEv' = "fetched"

\* useEffect(() => { if (wallet) calculateTokenValues() }, [wallet])
calculateTokenValues ==
    /\ dPending
    /\ dPending' = FALSE
    /\ UNCHANGED <<dWallet, dOps>>
    /\ IF dWallet.isNull \/ AlreadyValued(tokensWithValue)
       THEN /\ UNCHANGED <<tokensWithValue, dTotalValue>>
            /\ dEv' = "kept"
       ELSE LET allTokens == MapRows(ValuedRow, dWallet.tokens)
            IN /\ tokensWithValue' \in SortByUsdValue(allTokens)
               /\ dTotalValue' = PortfolioValue(allTokens, Num(0))
               /\ dEv' = "valued"


(***************************************************************************)
(* Specifications: one per screen group. The groups share no state except  *)
(* the 'wallets' item, which the analysis screen reads; a specification    *)
(* runs one group and leaves the others where they start.                  *)
(***************************************************************************)
vars == <<listVars, ctxVars, anVars, valVars>>

\* the list screen, the detail screen's write-back and the store
Init == ListInit /\ CtxInit /\ AnalysisInit /\ ValueInit

Next ==
    \/ \E input \in TypedInputs :
          AddPress(input) /\ UNCHANGED <<ctxVars, anVars, valVars>>
    \/ \E out \in ResolveOutcomes :
          AddResolved(out) /\ UNCHANGED <<ctxVars, anVars, valVars>>
    \/ \E out \in FetchOutcomes(add.addr, {add.addr}) :
          AddFetched(out, out.written) /\ UNCHANGED <<ctxVars, anVars, valVars>>
    \/ \E i \in 1..Len(wallets) :
          RemovePress(i) /\ UNCHANGED <<ctxVars, anVars, valVars>>
    \/ RemoveCancel /\ UNCHANGED <<ctxVars, anVars, valVars>>
    \/ \E written \in BOOLEAN :
          RemoveConfirm(written) /\ UNCHANGED <<ctxVars, anVars, valVars>>
    \/ \E i \in 1..Len(wallets) :
          RefreshPress(i) /\ UNCHANGED <<ctxVars, anVars, valVars>>
    \/ \E op \in {o \in InFlight : o.kind = "refresh"} :
       \E out \in FetchOutcomes(op.addr, {op.addr}) :
          RefreshDone(op, out, out.written) /\ UNCHANGED <<ctxVars, anVars, valVars>>
    \/ \E i \in 1..Len(wallets) :
          DetailOpen(i) /\ UNCHANGED <<ctxVars, anVars, valVars>>
    \/ \E op \in {o \in InFlight : o.kind = "detail"} :
       \E out \in FetchOutcomes(op.addr, Echoes(op.addr)) :
          DetailDone(op, out, out.written) /\ UNCHANGED <<ctxVars, anVars, valVars>>
    \/ Mount /\ UNCHANGED <<ctxVars, anVars, valVars>>

Spec == Init /\ [][Next]_vars

\* the legacy provider and its screens; the store is not used by them
CtxInputs == {AddrA, AddrAUpper, AddrB, AddrNonHex, AddrBPadded, Blank}

InitCtx == ListInit /\ store = NullItem /\ CtxInit /\ AnalysisInit /\ ValueInit

NextCtx ==
    \/ \E input \in CtxInputs :
          HomeAddPress(input) /\ UNCHANGED <<listVars, anVars, valVars>>
    \/ \E i \in 1..Len(ctxWallets) :
          CtxUpdatePress(i) /\ UNCHANGED <<listVars, anVars, valVars>>
    \/ \E i \in 1..Len(ctxWallets) :
          CtxRemoveWallet(i) /\ UNCHANGED <<listVars, anVars, valVars>>
    \/ \E call \in BagToSet(ctxCalls) : \E out \in LegacyOutcomes :
          CtxBalanceDone(call, out) /\ UNCHANGED <<listVars, anVars, valVars>>
    \/ \E call \in BagToSet(ctxCalls) : \E out \in LegacyOutcomes :
          CtxTokensDone(call, out) /\ UNCHANGED <<listVars, anVars, valVars>>

SpecCtx == InitCtx /\ [][NextCtx]_vars

\* the analysis screen over a store some earlier session wrote
InitAnalyze ==
    /\ store \in AnalysisStoredBefore
    /\ wallets = LoadWallets(store)
    /\ loading = FALSE
    /\ error = ""
    /\ add = AddIdle
    /\ inflight = EmptyBag
    /\ remove = NoRemove
    /\ ev = Ev("init", "")
    /\ ops = 0
    /\ CtxInit /\ AnalysisInit /\ ValueInit

NextAnalyze ==
    \/ LoadAnalysis /\ UNCHANGED <<listVars, ctxVars, valVars>>
    \/ \E out \in AnalysisOutcomes :
          AnalysisFetched(out) /\ UNCHANGED <<listVars, ctxVars, valVars>>

SpecAnalyze == InitAnalyze /\ [][NextAnalyze]_vars

\* what the detail screen displays
NextValue ==
    \/ \E w \in DisplayWallets :
          DetailShowStored(w) /\ UNCHANGED <<listVars, ctxVars, anVars>>
    \/ \E w \in DisplayWallets :
          DetailShowFetched(w) /\ UNCHANGED <<listVars, ctxVars, anVars>>
    \/ calculateTokenValues /\ UNCHANGED <<listVars, ctxVars, anVars>>

SpecValue == InitCtx /\ [][NextValue]_vars

(***************************************************************************)
(* Properties of the list screen, the detail screen and the store.         *)
(***************************************************************************)
Stored == IF store.isNull THEN <<>> ELSE JsonParse(store)

\* a and b have the same length and agree character by character up to case
EqualIgnoringCase(a, b) ==
    /\ Len(a) = Len(b)
    /\ \A i \in 1..Len(a) : LowerChar(CharAt(a, i)) = LowerChar(CharAt(b, i))

NoTwoEqualIgnoringCase(ws) ==
    \A i, j \in 1..Len(ws) : i < j => ~EqualIgnoringCase(ws[i].address, ws[j].address)

\* C1: whatever adds, removes and refreshes have run and however they interleaved,
\* neither the list in memory nor the array under 'wallets' holds two entries
\* whose addresses are equal ignoring letter case.
C1_NoDuplicateAddresses ==
    NoTwoEqualIgnoringCase(wallets) /\ NoTwoEqualIgnoringCase(Stored)

\* an add was refused as a duplicate of a wallet tracked under another spelling
C1_Witness ==
    /\ ev.kind = "addExists"
    /\ Len(wallets) >= 2
    /\ \A i \in 1..Len(wallets) : wallets[i].address # ev.addr

\* C2: a refresh completion that persists replaces only its own wallet's entry:
\* the stored array keeps every entry of another address as it was just before
\* the completion, and no entry appears or disappears.
C2_RefreshReplacesOnlyOwnEntry ==
    [][ev'.kind = "refreshOk" =>
         /\ Len(Stored') = Len(Stored)
         /\ \A i \in 1..Len(Stored) :
               Stored[i].address # ev'.addr => Stored'[i] = Stored[i]]_vars

\* C3: the completion of a refresh (list screen) or of a detail load whose wallet
\* is no longer tracked changes neither the list in memory nor the stored array.
C3_RefreshOfRemovedWalletIsNoOp ==
    [][(ev'.kind \in {"refreshOk", "detailOk"}
          /\ ~WalletExists(wallets, ev'.addr)
          /\ ~WalletExists(Stored, ev'.addr))
         => (wallets' = wallets /\ store' = store)]_vars

C6_DetailLookupIgnoresCase ==
    \A op \in InFlight :
        (op.kind = "detail" /\ ~op.item.isNull
           /\ WalletExists(JsonParse(op.item), op.addr)) => op.found

\* C7: an address passes the add form's format check (the holdings fetch starts,
\* or the duplicate check answers) only if it is 0x followed by 40 hexadecimal
\* characters, and every tracked wallet has such an address.
C7_OnlyHexAddressesAccepted ==
    /\ ev.kind \in {"addFetch", "addExists"} => AddressRegexTest(ev.addr)
    /\ \A i \in 1..Len(wallets) : AddressRegexTest(wallets[i].address)
    /\ \A i \in 1..Len(Stored) : AddressRegexTest(Stored[i].address)

\* C8 as stated: the resolver is asked only for input that ends with the alias
\* label.
C8_ResolverOnlyForAliasSuffix ==
    add.viaResolver => endsWith(trim(add.input), HlLabel)

\* C8 as amended: the resolver is asked only for input that contains the alias
\* label (anywhere); for input that is a hex address it is not asked and the
\* input itself is the address that is validated and fetched.
C8_ResolverOnlyForAliasInput ==
    /\ add.viaResolver => includes(trim(add.input), HlLabel)
    /\ (add.phase # "idle" /\ AddressRegexTest(add.input)) =>
          (~add.viaResolver /\ add.phase = "fetching" /\ add.addr = add.input)

\* the holdings fetch of a hex address has started without the resolver
C8_Witness ==
    add.phase = "fetching" /\ AddressRegexTest(add.input) /\ ~add.viaResolver

(***************************************************************************)
(* Properties of the legacy provider (SpecCtx).                            *)
(***************************************************************************)
\* C4: add-wallet is all-or-nothing: when the initial fetch of an add has failed,
\* the collection holds no entry for the address (an entry exists only if it was
\* populated from a successful fetch).
C4_AddIsAllOrNothing ==
    ctxEv.kind = "addBalanceFail" => ~CtxWalletExists(ctxWallets, ctxEv.addr)

(***************************************************************************)
(* Properties of the analysis screen (SpecAnalyze).                        *)
(***************************************************************************)
\* C9: when the analysis is computed from no holdings, or from holdings whose
\* total value is zero, it is the fixed empty result (total 0, top holding 'N/A',
\* risk 'Low', diversification 0, the canned recommendation, token count 0).
C9_ZeroTotalGivesEmptyResult ==
    (anPhase = "done" /\ ~analysis.isNull /\ SumTotalValue(allHoldings) = 0)
        => analysis = EmptyAnalysis

(***************************************************************************)
(* Properties of the detail screen's valuation (SpecValue).                *)
(***************************************************************************)
\* C10: after calculateTokenValues has valued the wallet's tokens, a row whose
\* balance does not parse as a number has usdValue 0, and the total is a
\* well-defined number.
C10_UnparseableBalanceCountsZero ==
    dEv = "valued" =>
        /\ dTotalValue.k = "num"
        /\ \A i \in 1..Len(tokensWithValue) :
              parseFloat(tokensWithValue[i].balance).k = "nan"
                  => tokensWithValue[i].usdValue = Num(0)

\* C11: once the detail screen has valued a wallet, the displayed rows and total
\* follow the wallet's shape: with a defined wallet total, the total and each
\* token's usdValue are shown unchanged; without one, each row's usdValue is
\* parsedBalance * price (a missing price counting as 0) and the total is the sum
\* of the rows' usdValue.
C11_ValuationFollowsInputShape ==
    (~dPending /\ ~dWallet.isNull) =>
        IF dWallet.totalValue.k # "undefined"
        THEN /\ dTotalValue = dWallet.totalValue
             /\ Len(tokensWithValue) = Len(dWallet.tokens)
             /\ \A i \in 1..Len(tokensWithValue) :
                   Cardinality({j \in 1..Len(tokensWithValue) :
                                   /\ tokensWithValue[j].symbol = tokensWithValue[i].symbol
                                   /\ tokensWithValue[j].usdValue = tokensWithValue[i].usdValue})
                   = Cardinality({j \in 1..Len(dWallet.tokens) :
                                   /\ dWallet.tokens[j].symbol = tokensWithValue[i].symbol
                                   /\ dWallet.tokens[j].usdValue = tokensWithValue[i].usdValue})
        ELSE /\ dTotalValue = SumUsdValue(tokensWithValue)
             /\ \A i \in 1..Len(tokensWithValue) :
                   tokensWithValue[i].usdValue
                     = JsMul(parseFloat(tokensWithValue[i].balance),
                             JsOr(tokensWithValue[i].price, Num(0)))

\* C12: on the list screen the portfolio total is the sum of the wallets' totals,
\* and each wallet's total, hence the portfolio total, is the sum of the usdValue
\* of the holdings it lists.
C12_TotalsAreSumsOfHoldings ==
    /\ \A i \in 1..Len(wallets) :
          calculateWalletTotalValue(wallets[i]) = SumTokenUsdValue(wallets[i].tokens)
    /\ calculateTotalPortfolioValue(wallets)
         = SumTokenUsdValue([i \in 1..Len(wallets) |->
                               [usdValue |-> SumTokenUsdValue(wallets[i].tokens)]])

\* C13: once the detail screen has valued a wallet, the displayed rows are the
\* wallet's tokens, each once, in an order where a row's usdValue is >= that of
\* every later row and rows of equal usdValue keep their order in the wallet.
C13_RowsSortedStableDescending ==
    (~dPending /\ ~dWallet.isNull) =>
        \E f \in [1..Len(tokensWithValue) -> 1..Len(dWallet.tokens)] :
            /\ Len(tokensWithValue) = Len(dWallet.tokens)
            /\ \A i, j \in 1..Len(tokensWithValue) :
                  /\ i # j => f[i] # f[j]
                  /\ tokensWithValue[i].symbol = dWallet.tokens[f[i]].symbol
                  /\ tokensWithValue[i].balance = dWallet.tokens[f[i]].balance
                  /\ i < j =>
                        /\ tokensWithValue[i].usdValue.k = "num"
                        /\ tokensWithValue[j].usdValue.k = "num"
                        /\ tokensWithValue[i].usdValue.v >= tokensWithValue[j].usdValue.v
                        /\ tokensWithValue[i].usdValue.v = tokensWithValue[j].usdValue.v
                              => f[i] < f[j]

(***************************************************************************)
(* Properties of the analysis screen's result (SpecAnalyze).               *)
(***************************************************************************)
\* the analysis of a non-empty holdings list has been set
Analysed == anPhase = "done" /\ ~analysis.isNull /\ Len(allHoldings) > 0
TopShare == analysis.largestHolding.percentage

\* C14 as stated: the reported diversification score is exactly
\* clamp(0, 100, 100 - (share - 20)), share being the top holding's percentage.
C14_ScoreIsTheClampedValue ==
    Analysed =>
        IF TopShare.d = 0 \/ 120 * TopShare.d - TopShare.n <= 0
        THEN analysis.diversification = 0
        ELSE IF 120 * TopShare.d - TopShare.n >= 100 * TopShare.d
        THEN analysis.diversification = 100
        ELSE analysis.diversification * TopShare.d = 120 * TopShare.d - TopShare.n

\* C14 as amended: every reported diversification score is an integer in
\* [0, 100], and for a non-empty holdings list it is
\* clamp(0, 100, 100 - (share - 20)) rounded to the nearest integer (half up).
C14_ScoreIsTheRoundedClampedValue ==
    /\ ~analysis.isNull => analysis.diversification \in 0..100
    /\ Analysed =>
          IF TopShare.d = 0 \/ 120 * TopShare.d - TopShare.n <= 0
          THEN analysis.diversification = 0
          ELSE IF 120 * TopShare.d - TopShare.n >= 100 * TopShare.d
          THEN analysis.diversification = 100
          ELSE /\ 2 * analysis.diversification * TopShare.d - TopShare.d
                    <= 2 * (120 * TopShare.d - TopShare.n)
               /\ 2 * (120 * TopShare.d - TopShare.n)
                    < 2 * analysis.diversification * TopShare.d + TopShare.d

\* an analysis whose clamped score is not a whole number has been reported
C14_Witness ==
    /\ Analysed
    /\ TopShare.d > 0
    /\ 120 * TopShare.d - TopShare.n > 0
    /\ 120 * TopShare.d - TopShare.n < 100 * TopShare.d
    /\ (120 * TopShare.d - TopShare.n) % TopShare.d # 0

\* the distinct symbols among the holdings analysed
AnalysedSymbols ==
    UNION {{allHoldings[i].tokens[j].symbol : j \in 1..Len(allHoldings[i].tokens)} :
              i \in 1..Len(allHoldings)}
\* the top holding's share compared with k percent (a share of x / 0 is Infinity)
ShareAbove(k) == IF TopShare.d = 0 THEN TopShare.n > 0 ELSE TopShare.n > k * TopShare.d
ShareBelow(k) == TopShare.d > 0 /\ TopShare.n < k * TopShare.d

\* C15: for a non-empty holdings list the risk is 'High' exactly when the top
\* holding's share is > 70%, 'Low' exactly when the share is < 30% and more than
\* five distinct symbols are held, and 'Medium' in every other case.
C15_RiskClassification ==
    Analysed =>
        /\ analysis.riskLevel \in {"High", "Medium", "Low"}
        /\ analysis.riskLevel = "High" <=> ShareAbove(70)
        /\ analysis.riskLevel = "Low"
              <=> (ShareBelow(30) /\ Cardinality(AnalysedSymbols) > 5)

\* five holdings of 20% each have been analysed
C15_Witness ==
    /\ Analysed
    /\ Cardinality(AnalysedSymbols) = 5
    /\ TopShare.d > 0 /\ TopShare.n = 20 * TopShare.d
    /\ analysis.riskLevel = "Medium"

\* C16: for a non-empty holdings list the recommendation is the one of the first
\* branch whose condition holds: share > 60% (concentration warning), fewer than
\* 3 distinct symbols (add more tokens), diversification score > 80 (positive
\* message), otherwise the rebalancing message. With the share at most 60% the
\* unrounded score 100 - (share - 20) is > 80 exactly when the share is < 40%.
C16_FirstMatchingRecommendation ==
    Analysed =>
        analysis.recommendation =
            IF ShareAbove(60) THEN RecConcentrated
            ELSE IF Cardinality(AnalysedSymbols) < 3 THEN RecLimited
            ELSE IF ShareBelow(40) THEN RecExcellent
            ELSE RecRebalance

\* a portfolio for which both the first and the second branch's condition hold
\* has been given the first branch's message
C16_Witness ==
    /\ Analysed
    /\ ShareAbove(60)
    /\ Cardinality(AnalysedSymbols) < 3
    /\ analysis.recommendation = RecConcentrated

\* the usdValue, and the parsed balance, held under one symbol over all wallets
RECURSIVE ValueOfSymbol(_, _)
ValueOfSymbol(tokens, symbol) ==
    IF tokens = <<>> THEN 0
    ELSE (IF tokens[1].symbol = symbol THEN tokens[1].usdValue ELSE 0)
           + ValueOfSymbol(Tail(tokens), symbol)
RECURSIVE BalanceOfSymbol(_, _)
BalanceOfSymbol(tokens, symbol) ==
    IF tokens = <<>> THEN Num(0)
    ELSE LET rest == BalanceOfSymbol(SubSeq(tokens, 1, Len(tokens) - 1), symbol)
             last == tokens[Len(tokens)]
         IN IF last.symbol = symbol THEN JsAdd(rest, parseFloat(last.balance)) ELSE rest
AnalysedTokens == FlattenTokens(allHoldings)
AnalysedValue(symbol) == ValueOfSymbol(AnalysedTokens, symbol)

\* C17: analysing a non-empty holdings list merges the holdings of all wallets
\* into one bucket per exact symbol, holding the sum of their usdValue and of
\* their balances; the top holding is a bucket of greatest summed usdValue and
\* its share is that value / total portfolio value * 100 (no bucket worth more
\* than 0: top holding 'N/A', share 0).
C17_BucketsPerSymbolAndTopHolding ==
    Analysed =>
        LET buckets == Aggregate(AnalysedTokens, <<>>)
        IN /\ Len(buckets) = Cardinality(AnalysedSymbols)
           /\ analysis.tokenCount = Cardinality(AnalysedSymbols)
           /\ \A i \in 1..Len(buckets) :
                 /\ buckets[i].symbol \in AnalysedSymbols
                 /\ \A j \in 1..Len(buckets) :
                       buckets[j].symbol = buckets[i].symbol => j = i
                 /\ buckets[i].totalValue = AnalysedValue(buckets[i].symbol)
                 /\ buckets[i].balance = BalanceOfSymbol(AnalysedTokens, buckets[i].symbol)
           /\ analysis.largestHolding.symbol = analysis.topPerformer
           /\ IF \E s \in AnalysedSymbols : AnalysedValue(s) > 0
              THEN /\ analysis.topPerformer \in AnalysedSymbols
                   /\ \A s \in AnalysedSymbols :
                         AnalysedValue(s) <= AnalysedValue(analysis.topPerformer)
                   /\ TopShare.n = 100 * AnalysedValue(analysis.topPerformer)
                   /\ TopShare.d = analysis.totalValue
              ELSE analysis.topPerformer = "N/A" /\ TopShare.n = 0 /\ TopShare.d > 0

\* two wallets holding ETH, one of them also eth, have been analysed
C17_Witness ==
    /\ Analysed
    /\ Len(allHoldings) = 2
    /\ \A i \in 1..2 : \E j \in 1..Len(allHoldings[i].tokens) :
          allHoldings[i].tokens[j].symbol = "ETH"
    /\ "eth" \in AnalysedSymbols
    /\ analysis.topPerformer = "ETH"

(***************************************************************************)
(* Further properties of the list screen and the store (Spec).             *)
(***************************************************************************)
\* C18: when a refresh (list screen) or a detail load has succeeded and written,
\* the stored entry of its wallet holds the holdings, the total value and the
\* holding count of one response, nothing of an earlier one.
C18_RefreshReplacesHoldingsWholesale ==
    [][ev'.kind \in {"refreshOk", "detailOk"} =>
         \A i \in 1..Len(Stored') :
             EqualIgnoringCase(Stored'[i].address, ev'.addr) =>
                 \E b \in HoldingsBodies :
                     /\ Stored'[i].tokens = b.tokens
                     /\ Stored'[i].totalValue = b.totalValue
                     /\ Stored'[i].tokenCount = b.tokenCount]_vars

\* the number of refreshes of one address that have started and not yet answered
OutstandingRefreshes(address) ==
    BagCardinality([o \in {x \in InFlight : x.kind = "refresh" /\ x.addr = address}
                        |-> CopiesIn(o, inflight)])

\* C19: at any moment a wallet has at most one refresh that has started and
\* has not yet completed.
C19_OneOutstandingRefreshPerWallet ==
    \A i \in 1..Len(wallets) : OutstandingRefreshes(wallets[i].address) <= 1

(***************************************************************************)
(* Further properties of the valuation on the detail screen (SpecValue).   *)
(***************************************************************************)
PriceMissing(token) == token.price.k \in {"undefined", "null"}

\* C20: once the detail screen has valued the tokens of its wallet, the row
\* of every token whose price is missing or null has price 0 and usdValue 0.
C20_MissingPriceGivesZeroValue ==
    dEv \in {"stored", "valued"} =>
        \A i \in 1..Len(dWallet.tokens) : \A j \in 1..Len(tokensWithValue) :
            (PriceMissing(dWallet.tokens[i])
               /\ tokensWithValue[j].symbol = dWallet.tokens[i].symbol)
            => /\ tokensWithValue[j].price = Num(0)
               /\ tokensWithValue[j].usdValue = Num(0)

(***************************************************************************)
(* The earlier revision of the list screen (app/(tabs)/index.tsx 1-636)    *)
(* and of the detail screen (app/wallet/[address].tsx), which value a      *)
(* wallet from its native balance and its tokens with getMockPrice, and    *)
(* the display of a fetched response with native-flagged tokens.           *)
(***************************************************************************)
\* Math.random() * 100: the least value and one value inside the range
RandomPrices == {0, 50}
\* the price table of the list screen, in dollars
ListPrices == ("ETH" :> 2300) @@ ("USDC" :> 1)
\* the price table of the detail screen, in hundredths of a dollar
DetailPrices == ("ETH" :> 290226) @@ ("USDC" :> 100)
\* prices[symbol] || Math.random() * 100: the prices one call may return
getMockPrice(prices, symbol) ==
    IF symbol \in DOMAIN prices THEN {prices[symbol]} ELSE RandomPrices

StoredLegacyTokens == {[symbol |-> "USDC", balance |-> "10"], [symbol |-> "XYZ", balance |-> "3"]}
StoredBalances == {"", "0", "1", "abc"}
LegacyWalletsAt(address) ==
    {[address |-> address, balance |-> b, tokens |-> q] :
        b \in StoredBalances, q \in SeqsUpTo(StoredLegacyTokens, 1)}
    \cup {[address |-> address, tokens |-> q] : q \in SeqsUpTo(StoredLegacyTokens, 1)}
LegacyStoredBefore ==
    {NullItem}
    \cup {[isNull |-> FALSE, text |-> <<a>>] : a \in LegacyWalletsAt(AddrA)}
    \cup {[isNull |-> FALSE, text |-> <<a, b>>] :
             a \in LegacyWalletsAt(AddrA), b \in LegacyWalletsAt(AddrB)}

\* wallet.balance && parseFloat(wallet.balance) > 0
HasNativeBalance(wallet) ==
    /\ "balance" \in DOMAIN wallet
    /\ wallet.balance # ""
    /\ parseFloat(wallet.balance).k = "num"
    /\ parseFloat(wallet.balance).v > 0

\* the sums the forEach over wallet.tokens may add to totalValue
RECURSIVE LegacyTokenSums(_, _)
LegacyTokenSums(tokens, totalValue) ==
    IF tokens = <<>> THEN {totalValue}
    ELSE UNION {LegacyTokenSums(Tail(tokens),
                    JsAdd(totalValue, JsMul(parseFloat(tokens[1].balance), Num(price)))) :
                price \in getMockPrice(ListPrices, tokens[1].symbol)}
\* calculateWalletTotalValue of the earlier revision: the values one call may return
LegacyWalletTotalValues(wallet) ==
    UNION {LegacyTokenSums(wallet.tokens, native) :
             native \in IF HasNativeBalance(wallet)
                        THEN {JsMul(parseFloat(wallet.balance), Num(ethPrice)) :
                                 ethPrice \in getMockPrice(ListPrices, "ETH")}
                        ELSE {Num(0)}}
\* wallets.reduce((total, wallet) => total + calculateWalletTotalValue(wallet), 0)
RECURSIVE LegacyPortfolioValues(_)
LegacyPortfolioValues(ws) ==
    IF ws = <<>> THEN {Num(0)}
    ELSE {JsAdd(total, value) :
            total \in LegacyPortfolioValues(SubSeq(ws, 1, Len(ws) - 1)),
            value \in LegacyWalletTotalValues(ws[Len(ws)])}

\* the rows calculateTokenValues of the earlier detail screen may build, before
\* the sort: the ETH row of the native balance, then one row for each token.
\* isNative marks the row pushed for wallet.balance.
RECURSIVE LegacyTokenRows(_)
LegacyTokenRows(tokens) ==
    IF tokens = <<>> THEN {<<>>}
    ELSE {<<[symbol |-> tokens[1].symbol, balance |-> tokens[1].balance,
             price |-> Num(price), isNative |-> FALSE,
             usdValue |-> JsMul(parseFloat(tokens[1].balance), Num(price))]>> \o rest :
            price \in getMockPrice(DetailPrices, tokens[1].symbol),
            rest \in LegacyTokenRows(Tail(tokens))}
LegacyRows(wallet) ==
    {native \o rest :
        native \in IF HasNativeBalance(wallet)
                   THEN {<<[symbol |-> "ETH", balance |-> wallet.balance,
                            price |-> Num(ethPrice), isNative |-> TRUE,
                            usdValue |-> JsMul(parseFloat(wallet.balance), Num(ethPrice))]>> :
                           ethPrice \in getMockPrice(DetailPrices, "ETH")}
                   ELSE {<<>>},
        rest \in LegacyTokenRows(wallet.tokens)}

\* the mount effect of the earlier list screen: loadWallets
LegacyLoadWallets ==
    /\ ops < MaxOps
    /\ ops' = ops + 1
    /\ wallets' = IF store.isNull THEN wallets ELSE JsonParse(store)
    /\ ev' = Ev("legacyLoad", "")
    /\ UNCHANGED <<store, loading, error, add, inflight, remove>>

\* a wallet card is pressed: loadWalletDetails of the earlier detail screen
\* finds the wallet in the store (wallets.find(w => w.address === address))
LegacyDetailFound(i) ==
    /\ i \in 1..Len(wallets)
    /\ ~dPending
    /\ dOps < MaxOps
    /\ dOps' = dOps + 1
    /\ \E j \in 1..Len(LoadWallets(store)) :
          /\ LoadWallets(store)[j].address = wallets[i].address
          /\ \A k \in 1..(j - 1) : LoadWallets(store)[k].address # wallets[i].address
          /\ dWallet' = [isNull |-> FALSE] @@ LoadWallets(store)[j]
    /\ dPending' = TRUE
    /\ dEv' = "legacyFound"
    /\ UNCHANGED <<tokensWithValue, dTotalValue>>

\* useEffect on [wallet] of the earlier detail screen: calculateTokenValues
LegacyCalculateTokenValues ==
    /\ dPending
    /\ dEv = "legacyFound"
    /\ dPending' = FALSE
    /\ \E allTokens \in LegacyRows(dWallet) :
          /\ tokensWithValue' \in SortByUsdValue(allTokens)
          /\ dTotalValue' = PortfolioValue(allTokens, Num(0))
    /\ dEv' = "legacyValued"
    /\ UNCHANGED <<dWallet, dOps>>

\* responses of the holdings endpoint whose tokens carry the isNative flag
NativeToken(symbol, balance, price, isNative) ==
    [symbol |-> symbol, balance |-> balance, price |-> Num(price), value |-> Undefined,
     usdValue |-> JsMul(parseFloat(balance), Num(price)), isNative |-> isNative]
NativeTokens ==
    {NativeToken("ETH", "1", 2300, TRUE), NativeToken("ETH", "0", 2300, TRUE),
     NativeToken("HYPE", "2", 40, TRUE), NativeToken("USDC", "10", 1, FALSE)}
NativeWallets ==
    {[isNull |-> FALSE, tokens |-> q, totalValue |-> SumUsdValue(q)] :
        q \in SeqsUpTo(NativeTokens, MaxTokens)}

InitLegacy ==
    /\ store \in LegacyStoredBefore
    /\ wallets = <<>>
    /\ loading = FALSE
    /\ error = ""
    /\ add = AddIdle
    /\ inflight = EmptyBag
    /\ remove = NoRemove
    /\ ev = Ev("init", "")
    /\ ops = 0
    /\ CtxInit /\ AnalysisInit /\ ValueInit

NextLegacy ==
    \/ LegacyLoadWallets /\ UNCHANGED <<ctxVars, anVars, valVars>>
    \/ \E i \in 1..Len(wallets) :
          LegacyDetailFound(i) /\ UNCHANGED <<listVars, ctxVars, anVars>>
    \/ LegacyCalculateTokenValues /\ UNCHANGED <<listVars, ctxVars, anVars>>
    \/ \E w \in NativeWallets :
          DetailShowFetched(w) /\ UNCHANGED <<listVars, ctxVars, anVars>>
    \/ (dEv = "fetched" /\ calculateTokenValues) /\ UNCHANGED <<listVars, ctxVars, anVars>>

SpecLegacy == InitLegacy /\ [][NextLegacy]_vars

\* the positions of the displayed list that hold a native-asset holding
NativeRows ==
    IF dEv = "legacyValued"
    THEN {i \in 1..Len(tokensWithValue) : tokensWithValue[i].isNative}
    ELSE {i \in 1..Len(dWallet.tokens) : dWallet.tokens[i].isNative}
NativeBalances ==
    IF dEv = "legacyValued"
    THEN {tokensWithValue[i].balance : i \in NativeRows}
    ELSE {dWallet.tokens[i].balance : i \in NativeRows}

\* C21: a displayed holdings list has at most one native-asset holding, and a
\* native holding is listed only with a balance above zero.
C21_AtMostOneNativeAndNeverZero ==
    dEv \in {"legacyValued", "fetched", "kept", "valued"} =>
        /\ Cardinality(NativeRows) <= 1
        /\ \A b \in NativeBalances : parseFloat(b).k = "num" /\ parseFloat(b).v > 0

\* C22: the total portfolio value is a function of the wallet list: the
\* computation has one possible result for the list in memory.
C22_PortfolioValueIsAFunctionOfTheList ==
    Cardinality(LegacyPortfolioValues(wallets)) = 1

(***************************************************************************)
(* Error reporting and the provider's updates.                             *)
(***************************************************************************)
\* C23: when a refresh has failed (its fetch failed, or the write of its
\* result failed), the list screen shows an error message.
C23_FailedRefreshShowsAnError ==
    ev.kind \in {"refreshFail", "refreshSaveFail"} => error # ""

\* C24: when addWallet has returned after both of its fetches succeeded, the
\* provider's wallets hold an entry for the added address and that entry
\* carries a fetched balance (not the placeholder's '0').
C24_AddedWalletIsTrackedWithFetchedData ==
    ctxEv.kind = "addDone" =>
        \E i \in 1..Len(ctxWallets) :
            /\ ctxWallets[i].address = ctxEv.addr
            /\ ctxWallets[i].balance \in LegacyBalances

\* C25: when updateBalance has completed for a tracked wallet after both of
\* its fetches succeeded, every entry of that wallet carries a fetched
\* balance: the token update has not put back the balance from before.
C25_TokenUpdateKeepsBalanceUpdate ==
    ctxEv.kind = "updateDone" =>
        \A i \in 1..Len(ctxWallets) :
            toLowerCase(ctxWallets[i].address) = toLowerCase(ctxEv.addr)
                => ctxWallets[i].balance \in LegacyBalances

(***************************************************************************)
(* The list in memory against the stored array (Spec).                     *)
(***************************************************************************)
\* C26: whenever no add, remove, refresh or detail load is in flight, the
\* list screen's wallets equal the array stored under 'wallets'.
C26_MemoryEqualsStoreWhenIdle ==
    (add = AddIdle /\ remove = NoRemove /\ inflight = EmptyBag) => wallets = Stored

\* C27: when the detail screen's write-back has persisted, the stored array
\* has as many entries as the array the load had read, with the same address
\* strings at the same positions.
C27_WriteBackKeepsTrackedAddresses ==
    [][ev'.kind = "detailOk" =>
         \E op \in InFlight :
            /\ op.kind = "detail" /\ op.addr = ev'.addr /\ ~op.item.isNull
            /\ Len(Stored') = Len(JsonParse(op.item))
            /\ \A i \in 1..Len(Stored') :
                  Stored'[i].address = JsonParse(op.item)[i].address]_vars

(***************************************************************************)
(* Further properties of the analysis screen (SpecAnalyze).                *)
(***************************************************************************)
\* the addresses of holdings, in order, are picked from the addresses of ws, in order
RECURSIVE PickedInOrder(_, _)
PickedInOrder(holdings, ws) ==
    IF holdings = <<>> THEN TRUE
    ELSE IF ws = <<>> THEN FALSE
    ELSE IF holdings[1].address = ws[1].address
         THEN PickedInOrder(Tail(holdings), Tail(ws))
         ELSE PickedInOrder(holdings, Tail(ws))

\* C28: a failed or non-success fetch for one wallet does not end the run: the
\* run goes on to the next wallet or to the result, the holdings collected
\* are those of exactly the wallets that were not skipped, and the result's
\* total value is the sum of their totalValue.
C28_FailedWalletIsSkippedNotFatal ==
    /\ anPhase \in {"fetching", "done"} =>
          /\ anFailed <= Len(anWallets)
          /\ PickedInOrder(allHoldings, anWallets)
    /\ anPhase = "fetching" => Len(allHoldings) + anFailed = anIdx - 1
    /\ (anPhase = "done" /\ ~analysis.isNull) =>
          /\ Len(allHoldings) + anFailed = Len(anWallets)
          /\ analysis.totalValue = SumTotalValue(allHoldings)

\* a run over two wallets has ended with one wallet skipped and the other counted
C28_Witness ==
    /\ anPhase = "done"
    /\ ~analysis.isNull
    /\ anFailed = 1
    /\ Len(allHoldings) = 1
    /\ analysis.totalValue = allHoldings[1].totalValue
    /\ analysis.totalValue > 0

\* C29: the share of the top holding reported by an analysis is a number
\* between 0 and 100 percent.
C29_TopShareWithinZeroAndHundred ==
    (anPhase = "done" /\ ~analysis.isNull) =>
        /\ TopShare.d > 0
        /\ TopShare.n >= 0
        /\ TopShare.n <= 100 * TopShare.d

(***************************************************************************)
(* The loading flag of the add form (Spec).                                *)
(***************************************************************************)
\* the steps that end an add attempt, one for each path of handleAddWallet
AddEndKinds ==
    {"addEmpty", "addResolveFail", "addInvalid", "addExists", "addFetchFail",
     "addSaveFail", "addOk"}

\* C30: every path that ends an add attempt leaves loading false, and
\* loading is false whenever no add attempt is in progress: the Add button
\* is not left disabled by a finished attempt.
C30_FinishedAddResetsLoading ==
    /\ ev.kind \in AddEndKinds => ~loading
    /\ add.phase = "idle" => ~loading

\* an attempt that had set loading has ended on a failure of the resolver, of
\* the holdings fetch or of the store write
C30_Witness ==
    /\ ev.kind \in {"addResolveFail", "addFetchFail", "addSaveFail"}
    /\ add.phase = "idle"
    /\ ~loading

====
